---- MODULE Spec2Model ----
(***************************************************************************)
(* Model of the reaction relay of src/main.py: a reaction event on a       *)
(* message is resolved to an email domain, looked up in a cached mapping   *)
(* sheet, authorized against the mapping row and relayed to the row's      *)
(* client channel.                                                         *)
(*                                                                         *)
(* Python strings are sequences of one-character strings, so that strip(), *)
(* lower(), splitlines() and the regular expressions are computed on the   *)
(* characters.  Python's None is the sentinel sequence None.               *)
(***************************************************************************)
EXTENDS Integers, Sequences, FiniteSets, TLC

(***************************************************************************)
(* Strings                                                                 *)
(***************************************************************************)
None == <<"None">>

\* Python truthiness of a str-or-None value: "if not x", "x or ''".
Falsy(x) == x = None \/ x = <<>>

OrEmpty(x) == IF Falsy(x) THEN <<>> ELSE x

\* The characters str.strip() removes and the regex class \s matches.
Whitespace == {" ", "\t", "\n", "\r"}

\* The line boundaries of str.splitlines() among the characters modelled.
LineBreaks == {"\n", "\r"}

UpperChars == <<"A", "B", "C", "D", "E", "F", "G", "H", "I", "J", "K", "L", "M",
                "N", "O", "P", "Q", "R", "S", "T", "U", "V", "W", "X", "Y", "Z">>

LowerChars == <<"a", "b", "c", "d", "e", "f", "g", "h", "i", "j", "k", "l", "m",
                "n", "o", "p", "q", "r", "s", "t", "u", "v", "w", "x", "y", "z">>

LowerChar(c) ==
    IF \E i \in 1..Len(UpperChars) : UpperChars[i] = c
    THEN LowerChars[CHOOSE i \in 1..Len(UpperChars) : UpperChars[i] = c]
    ELSE c

\* str.lower()
LowerStr(s) == [i \in 1..Len(s) |-> LowerChar(s[i])]

\* First index e >= s of t holding a character of Stop, Len(t)+1 when none.
RunEnd(t, s, Stop) ==
    CHOOSE e \in s..(Len(t) + 1) :
        /\ e = Len(t) + 1 \/ t[e] \in Stop
        /\ \A k \in s..(e - 1) : t[k] \notin Stop

\* Last index e <= s of t holding a character outside Skip, 0 when none.
RunStart(t, s, Skip) ==
    LET keep == {e \in 1..s : t[e] \notin Skip}
    IN  IF keep = {} THEN 0 ELSE CHOOSE e \in keep : \A k \in keep : k <= e

Range(s) == {s[i] : i \in DOMAIN s}

\* str.strip()
StripStr(s) ==
    LET a == RunEnd(s, 1, {c \in Range(s) : c \notin Whitespace})
        b == RunStart(s, Len(s), Whitespace)
    IN  IF a > b THEN <<>> ELSE SubSeq(s, a, b)

\* The literal lit occurs in t at index s.
HasAt(t, s, lit) ==
    /\ s + Len(lit) - 1 <= Len(t)
    /\ \A k \in 1..Len(lit) : t[s + k - 1] = lit[k]

\* Python "lit in t"
Contains(t, lit) == \E s \in 1..(Len(t) - Len(lit) + 1) : HasAt(t, s, lit)

\* str.splitlines(): no line for a trailing line break, "\r\n" is one break.
RECURSIVE SplitFrom(_, _)
SplitFrom(t, s) ==
    IF s > Len(t) THEN <<>>
    ELSE LET e == RunEnd(t, s, LineBreaks)
             nxt == IF e < Len(t) /\ t[e] = "\r" /\ t[e + 1] = "\n"
                    THEN e + 2 ELSE e + 1
         IN  <<SubSeq(t, s, e - 1)>> \o SplitFrom(t, nxt)

splitlines(t) == SplitFrom(t, 1)

\* "\n".join(parts)
RECURSIVE JoinNl(_)
JoinNl(parts) ==
    IF parts = <<>> THEN <<>>
    ELSE IF Len(parts) = 1 THEN parts[1]
    ELSE parts[1] \o <<"\n">> \o JoinNl(Tail(parts))

(***************************************************************************)
(* extract_domain_from_text                                                *)
(***************************************************************************)
MARKER == <<"D", "e", "s", "d", "e", " ", "q", "u", "é", " ", "m", "a", "i", "l",
            " ", "s", "a", "l", "i", "ó", " ", "l", "a", " ", "r", "e", "u", "n",
            "i", "ó", "n">>

MAILTO == <<"<", "m", "a", "i", "l", "t", "o", ":">>

\* First alternative of the pattern tried at index s:
\*   <mailto:[^@]+@([^>|]+)[^>]*>
\* [^@]+ must end at the first "@" after the literal; group 1 is the longest
\* run without ">" and "|" after it; a ">" must follow somewhere.
MailtoGroup(t, s) ==
    IF ~HasAt(t, s, MAILTO) THEN None
    ELSE LET a == s + Len(MAILTO)
             p == RunEnd(t, a, {"@"})
         IN  IF p > Len(t) \/ p = a THEN None
             ELSE LET q == RunEnd(t, p + 1, {">", "|"})
                      g == RunEnd(t, q, {">"})
                  IN  IF q = p + 1 \/ g > Len(t) THEN None
                      ELSE SubSeq(t, p + 1, q - 1)

\* Second alternative tried at index s:   [^<\s]+@([^\s>]+)
\* The greedy [^<\s]+ gives back characters until an "@" follows it that is
\* itself followed by a character of [^\s>]: the last such "@" of the run.
BareGroup(t, s) ==
    LET e == RunEnd(t, s, {"<"} \cup Whitespace)
        ats == {p \in (s + 1)..(e - 1) :
                   /\ t[p] = "@"
                   /\ p + 1 <= Len(t)
                   /\ t[p + 1] \notin (Whitespace \cup {">"})}
    IN  IF ats = {} THEN None
        ELSE LET p == CHOOSE x \in ats : \A y \in ats : y <= x
             IN  SubSeq(t, p + 1, RunEnd(t, p + 1, Whitespace \cup {">"}) - 1)

\* re.search(pattern, t) followed by (m.group(1) or m.group(2)): the
\* leftmost index at which an alternative matches, the first alternative
\* first; None when the pattern matches nowhere.
ReSearch(t) ==
    LET Matches(s) == MailtoGroup(t, s) # None \/ BareGroup(t, s) # None
    IN  IF \A s \in 1..Len(t) : ~Matches(s) THEN None
        ELSE LET s == CHOOSE x \in 1..Len(t) :
                          Matches(x) /\ \A y \in 1..(x - 1) : ~Matches(y)
                 m1 == MailtoGroup(t, s)
             IN  IF m1 # None THEN m1 ELSE BareGroup(t, s)

\* The characters of the class [>\|\)\]\.,;:]
TrailNoise == {">", "|", ")", "]", ".", ",", ";", ":"}

\* re.sub(r'[>\|\)\]\.,;:]+$', '', d)
StripTrailNoise(d) == SubSeq(d, 1, RunStart(d, Len(d), TrailNoise))

\* Lines 99-101: the normalisation of a match found in the marker window.
WindowNormalize(g) == StripTrailNoise(LowerStr(StripStr(g)))

\* Line 107: the normalisation of a match found by the whole-text fallback.
FallbackNormalize(g) == LowerStr(StripStr(g))

\* Index of the first line holding the marker, 0 when there is none.
RECURSIVE FirstMarkerFrom(_, _)
FirstMarkerFrom(lines, i) ==
    IF i > Len(lines) THEN 0
    ELSE IF Contains(lines[i], MARKER) THEN i
    ELSE FirstMarkerFrom(lines, i + 1)

\* Variant: the window reaches one line further.
WindowLines_Five == 4 + 1

\* The number of lines inspected from the marker line on (range(i, i+4)).
WindowLines == 4

\* Lines 96-102: first line j of the window whose search matches, 0 if none.
RECURSIVE WindowMatchFrom(_, _, _)
WindowMatchFrom(lines, j, last) ==
    IF j > last THEN 0
    ELSE IF ReSearch(lines[j]) # None THEN j
    ELSE WindowMatchFrom(lines, j + 1, last)

Min(a, b) == IF a <= b THEN a ELSE b

\* Variant: a marker line whose window holds no email is passed over and
\* the next marker line is tried.
RECURSIVE MarkerWindowFrom(_, _)
MarkerWindowFrom(lines, k) ==
    LET i == FirstMarkerFrom(lines, k)
        j == IF i = 0 THEN 0
             ELSE WindowMatchFrom(lines, i, Min(i + WindowLines - 1, Len(lines)))
    IN  IF i = 0 \/ j # 0 THEN j ELSE MarkerWindowFrom(lines, i + 1)

ExtractTrace_LaterMarkers(text) ==
    LET lines == splitlines(text)
        j == MarkerWindowFrom(lines, 1)
    IN  IF j # 0
        THEN [domain |-> WindowNormalize(ReSearch(lines[j])),
              path |-> "window", line |-> j]
        ELSE LET m == ReSearch(text)
             IN  IF m # None
                 THEN [domain |-> FallbackNormalize(m), path |-> "fallback", line |-> 0]
                 ELSE [domain |-> None, path |-> "none", line |-> 0]

\* extract_domain_from_text with the path it took: "window" (line j of the
\* text), "fallback" or "none".
ExtractTrace(text) ==
    LET lines == splitlines(text)
        i == FirstMarkerFrom(lines, 1)
        j == IF i = 0 THEN 0
             ELSE WindowMatchFrom(lines, i, Min(i + WindowLines - 1, Len(lines)))
    IN  IF j # 0
        THEN [domain |-> WindowNormalize(ReSearch(lines[j])),
              path |-> "window", line |-> j]
        ELSE LET m == ReSearch(text)
             IN  IF m # None
                 THEN [domain |-> FallbackNormalize(m), path |-> "fallback", line |-> 0]
                 ELSE [domain |-> None, path |-> "none", line |-> 0]

extract_domain_from_text(text) == ExtractTrace(text).domain

(***************************************************************************)
(* collect_text_from_blocks, get_full_text                                 *)
(*                                                                         *)
(* A message is [ts, text, blocks, attachments]: text is None when the key *)
(* is absent; absent blocks or attachments are the empty list, which both  *)
(* functions treat as they treat None.  A block is [type, text, elements]: *)
(* text is [type, text] (NoText when the block has none) and elements are  *)
(* rich-text sections [type, elements] whose elements are                  *)
(* [type, text, url].  An attachment is [text].                            *)
(***************************************************************************)
NoText == [type |-> "", text |-> <<>>]

RECURSIVE Flatten(_)
Flatten(ss) == IF ss = <<>> THEN <<>> ELSE Head(ss) \o Flatten(Tail(ss))

\* Lines 64-67: what one element of a rich-text section appends to out.
ElementTexts(e) ==
    (IF e.type = "text" /\ ~Falsy(e.text) THEN <<e.text>> ELSE <<>>)
    \o (IF e.type = "link" /\ ~Falsy(e.url) THEN <<e.url>> ELSE <<>>)

\* Lines 61-67
SectionTexts(el) ==
    IF el.type = "rich_text_section"
    THEN Flatten([k \in 1..Len(el.elements) |-> ElementTexts(el.elements[k])])
    ELSE <<>>

\* Lines 56-67: what one block appends to out.
BlockTexts(b) ==
    (IF b.text.type = "mrkdwn" /\ ~Falsy(b.text.text)
     THEN <<b.text.text>> ELSE <<>>)
    \o (IF b.type = "rich_text"
        THEN Flatten([k \in 1..Len(b.elements) |-> SectionTexts(b.elements[k])])
        ELSE <<>>)

collect_text_from_blocks(blocks) ==
    JoinNl(Flatten([k \in 1..Len(blocks) |-> BlockTexts(blocks[k])]))

\* Lines 73-76: "\n" + text for every attachment that has text.
AttachmentsText(atts) ==
    Flatten([k \in 1..Len(atts) |->
                IF Falsy(atts[k].text) THEN <<>> ELSE <<"\n">> \o atts[k].text])

get_full_text(msg) ==
    LET base == OrEmpty(msg.text)
        blocks_txt == collect_text_from_blocks(msg.blocks)
        attachments_txt == AttachmentsText(msg.attachments)
    IN  JoinNl(SelectSeq(<<base, blocks_txt, attachments_txt>>, LAMBDA t : t # <<>>))

(***************************************************************************)
(* The mapping sheet and its rows                                          *)
(***************************************************************************)
\* dict(zip(hdr, r)): the header paired with the row cell by cell, up to the
\* shorter of the two; a repeated header name keeps its last cell.
ZipRow(hdr, r) ==
    LET n == Min(Len(hdr), Len(r))
    IN  [k \in {hdr[i] : i \in 1..n} |->
            r[CHOOSE i \in 1..n : hdr[i] = k /\ \A j \in (i + 1)..n : hdr[j] # k]]

\* Lines 44-45
BuildRows(values) ==
    [k \in 1..(Len(values) - 1) |-> ZipRow(values[1], values[k + 1])]

\* Variant: a missing field reads as "true".
Get_DefaultTrue(row, key) ==
    IF key \in DOMAIN row THEN row[key] ELSE <<"t", "r", "u", "e">>

\* row.get(key, "")
Get(row, key) == IF key \in DOMAIN row THEN row[key] ELSE <<>>

\* Variant: the row's domain is compared as written, without lower().
RowMatches_CaseSensitive(r, domain) == Get(r, "Dominio") = domain

\* Line 164: does row r match the looked-up domain.
RowMatches(r, domain) == LowerStr(Get(r, "Dominio")) = domain

\* Line 164: next(...) gives the first matching row; 0 stands for no row.
FindRow(mapping, domain) ==
    LET hits == {i \in 1..Len(mapping) : RowMatches(mapping[i], domain)}
    IN  IF hits = {} THEN 0 ELSE CHOOSE i \in hits : \A j \in hits : i <= j

TRUE_LITERAL == <<"t", "r", "u", "e">>

\* Line 170
IsActive(row) ==
    \E stripped \in {StripStr(Get(row, "Activo"))} : LowerStr(stripped) = TRUE_LITERAL

\* Line 174
IsManager(row, user) == user = StripStr(OrEmpty(Get(row, "ManagerSlackID")))

\* Line 179
ClientChannel(row) == StripStr(OrEmpty(Get(row, "ClientChannelID")))

\* Variant: the identity check is missing.
AuthorizationGate_NoIdentity(row, user) ==
    IF ~IsActive(row) THEN "inactive"
    ELSE IF Falsy(ClientChannel(row)) THEN "no_channel"
    ELSE "ok"

\* Variant: the identity check runs before the active check.
AuthorizationGate_IdentityFirst(row, user) ==
    IF ~IsManager(row, user) THEN "unauthorized"
    ELSE IF ~IsActive(row) THEN "inactive"
    ELSE IF Falsy(ClientChannel(row)) THEN "no_channel"
    ELSE "ok"

\* Lines 170-182: the validations in the order of the code; the reason of the
\* first one that fails, "ok" when all pass.
AuthorizationGate(row, user) ==
    IF ~IsActive(row) THEN "inactive"
    ELSE IF ~IsManager(row, user) THEN "unauthorized"
    ELSE IF Falsy(ClientChannel(row)) THEN "no_channel"
    ELSE "ok"

(***************************************************************************)
(* The inputs the environment can produce                                  *)
(***************************************************************************)
U123 == <<"U", "1", "2", "3">>
U999 == <<"U", "9", "9", "9">>

\* event.get("user"): None when the payload carries no user.
Users == {U123, U999, None}

\* item.get("ts") of the reaction event.
EventTs == "T1"

HDR == <<"Dominio", "Cliente", "ClientChannelID", "PodChannelID", "ManagerSlackID",
         "Activo">>

S_acme == <<"a", "c", "m", "e", ".", "c", "o", "m">>
S_ACME == <<"A", "C", "M", "E", ".", "c", "o", "m">>
S_foo == <<"f", "o", "o", ".", "o", "r", "g">>
S_C999 == <<"C", "9", "9", "9">>
S_C777 == <<"C", "7", "7", "7">>
S_P1 == <<"P", "1">>

RowGood == <<S_acme, <<"A", "c", "m", "e">>, S_C999, S_P1, U123, TRUE_LITERAL>>
RowPadded == <<S_ACME, <<"A", "c", "m", "e">>, <<" ", "C", "9", "9", "9", " ">>, S_P1, <<" ", "U", "1", "2", "3", " ">>, <<" ", "T", "R", "U", "E", " ">>>>
RowInactive == <<S_acme, <<"A", "c", "m", "e">>, S_C999, S_P1, U123, <<"f", "a", "l", "s", "e">>>>
RowFoo == <<S_foo, <<"F", "o", "o">>, S_C777, S_P1, U999, TRUE_LITERAL>>
RowFooNoChannel == <<S_foo, <<"F", "o", "o">>, <<" ">>, S_P1, U999, TRUE_LITERAL>>
RowFooShort == <<S_foo, <<"F", "o", "o">>, S_C777>>

\* What the sheet range can hold: no values at all, a header alone, tables.
Sheets == {
    <<>>,
    <<HDR>>,
    <<HDR, RowGood, RowFoo>>,
    <<HDR, RowInactive, RowGood, RowFooShort>>,
    <<HDR, RowPadded, RowFooNoChannel>> }

TxtMarkerAcme == MARKER \o <<":", " ", "<", "m", "a", "i", "l", "t", "o", ":", "u", "s", "e", "r", "@", "A", "c", "m", "e", ".", "c", "o", "m", "|", "u", "s", "e", "r", "@", "a", "c", "m", "e", ".", "c", "o", "m", ">">>
TxtUpperAcme == <<"x", "@", "A", "C", "M", "E", ".", "c", "o", "m">>
TxtLowerAcme == <<"x", "@", "a", "c", "m", "e", ".", "c", "o", "m">>
TxtFoo == <<"j", "a", "n", "e", "@", "f", "o", "o", ".", "o", "r", "g">>
TxtNoMail == <<"h", "o", "l", "a">>

Message(ts, text, blocks, attachments) ==
    [ts |-> ts, text |-> text, blocks |-> blocks, attachments |-> attachments]

\* The messages the platform can return for the event's channel.
Messages == {
    Message("T1", TxtMarkerAcme, <<>>, <<>>),
    Message("T1", TxtUpperAcme, <<>>, <<>>),
    Message("T1", TxtLowerAcme, <<>>, <<>>),
    Message("T1", TxtNoMail, <<>>, <<>>),
    Message("T1", None, <<>>, <<>>),
    Message("T1", None,
            <<[type |-> "section", text |-> [type |-> "mrkdwn", text |-> TxtNoMail],
               elements |-> <<>>]>>,
            <<[text |-> TxtFoo]>>),
    Message("T0", TxtFoo, <<>>, <<>>) }

NoMessage == Message("", None, <<>>, <<>>)

\* Exceptions the external calls and the payload access can raise.
SlackApiError == "SlackApiError"
Exceptions == {SlackApiError, "ConnectionError", "HttpError", "KeyError",
               "AttributeError"}

\* A response of conversations_history / conversations_replies (limit=1).
Responses ==
    {[exc |-> e, messages |-> <<>>] : e \in {SlackApiError, "ConnectionError"}}
    \cup {[exc |-> "", messages |-> <<>>]}
    \cup {[exc |-> "", messages |-> <<m>>] : m \in Messages}

\* What a response was, as the platform gave it: the exception raised, or
\* "empty", or whether the first message is the one with the event's ts.
Outcome(resp) ==
    IF resp.exc # "" THEN resp.exc
    ELSE IF resp.messages = <<>> THEN "empty"
    ELSE IF resp.messages[1].ts = EventTs THEN "target"
    ELSE "other"

(***************************************************************************)
(* State                                                                   *)
(***************************************************************************)
VARIABLES
    now,            \* the clock of TTLCache (time.monotonic)
    sheet,          \* the values the sheet range holds at the source
    cache,          \* cache_map: [has, rows, expires]
    fetched,        \* history: the last completed sheet fetch [at, rows]
    fetchFailed,    \* history: the last get_mapping call ended with the fetch raising
    pc,             \* position of the handler invocation
    user,           \* event.get("user")
    msg,            \* the message fetch_message_or_reply returned
    full_text,      \* get_full_text(msg)
    domain,         \* extract_domain_from_text(full_text)
    values,         \* the running get_mapping call: sheet.get("values", [])
    callAt,         \* history: the time the running get_mapping call started
    callPrev,       \* history: the value of fetched when that call started
    mapping,        \* the table get_mapping returned
    rowIdx,         \* index of row in mapping; 0 no row; -1 lookup not run
    client_channel, \* the destination computed at line 179
    log,            \* what the handler logged for the current event
    calls,          \* the external calls of the current event: <<call, outcome>>
    posts,          \* the chat_postMessage calls made for the current event
    escaped,        \* an exception left handle_reaction_added
    xKinds,         \* extraction alone: the kinds of the lines of the text
    xOut,           \* extraction alone: what extract_domain_from_text did
    sheetVer,       \* concurrent calls: how many times the sheet was edited
    heap,           \* concurrent calls: the tables built, one per list object
    cacheRef,       \* concurrent calls: the list object cache_map["map"] is
    threads,        \* concurrent calls: each thread's get_mapping call
    served          \* history: the newest sheet version a call has returned

vars == <<now, sheet, cache, fetched, fetchFailed, pc, user, msg, full_text, domain,
          values, callAt, callPrev, mapping, rowIdx, client_channel, log, calls,
          posts, escaped, xKinds, xOut, sheetVer, heap, cacheRef, threads,
          served>>

extractVars == <<xKinds, xOut>>
concVars == <<sheetVer, heap, cacheRef, threads, served>>
aloneVars == <<extractVars, concVars>>
envVars == <<now, sheet>>
cacheVars == <<cache, fetched, fetchFailed>>
msgVars == <<msg, full_text, domain>>
callVars == <<values, callAt, callPrev>>
mapVars == <<callVars, mapping, rowIdx, client_channel>>

\* TTLCache(maxsize=1, ttl=60)
TTL == 60

\* The clock advances in steps of half a TTL up to MaxTime.
TickStep == TTL \div 2
MaxTime == 90

EmptyCache == [has |-> FALSE, rows |-> <<>>, expires |-> 0]
NeverFetched == [at |-> -1, rows |-> <<>>]

\* "map" in cache_map, and the test cache_map["map"] makes before it
\* returns the value: the entry exists and the clock is before its expiry.
CacheValid(c, t) == c.has /\ t < c.expires

\* cache_map["map"] = rows at time t
CacheStore(rows, t) == [has |-> TRUE, rows |-> rows, expires |-> t + TTL]

Pending == [domain |-> None, path |-> "pending", line |-> 0]

HandlerInit ==
    /\ now = 0
    /\ cache = EmptyCache
    /\ fetched = NeverFetched
    /\ fetchFailed = FALSE
    /\ pc = "idle"
    /\ user = None
    /\ msg = NoMessage
    /\ full_text = <<>>
    /\ domain = None
    /\ values = <<>>
    /\ callAt = 0
    /\ callPrev = NeverFetched
    /\ mapping = <<>>
    /\ rowIdx = -1
    /\ client_channel = <<>>
    /\ log = <<>>
    /\ calls = <<>>
    /\ posts = <<>>
    /\ escaped = FALSE

\* The threads of the listener pool that run get_mapping at the same time.
NumThreads == 2
Threads == 1..NumThreads

\* A thread that is not inside get_mapping and holds no table.
NoCall ==
    [pc |-> "idle", values |-> <<>>, ver |-> 0, at |-> 0, seen |-> 0, ret |-> 0]

ConcInit ==
    /\ sheetVer = 0
    /\ heap = <<>>
    /\ cacheRef = 0
    /\ threads = [p \in Threads |-> NoCall]
    /\ served = 0

Init ==
    /\ HandlerInit
    /\ ConcInit
    /\ sheet \in Sheets
    /\ xKinds = <<>>
    /\ xOut = Pending

(***************************************************************************)
(* Exceptions                                                              *)
(***************************************************************************)
\* Lines 121 and 129: except SlackApiError in fetch_message_or_reply.
FetchCatches(exc) == exc = SlackApiError

\* Line 188: except SlackApiError around chat_postMessage.
PostCatches(exc) == exc = SlackApiError

\* Variant: the outer handler catches the platform's error only.
HandlerCatches_SlackOnly(exc) == exc = SlackApiError

\* Line 191: except Exception around the whole handler.
HandlerCatches(exc) == exc \in Exceptions

\* An exception raised inside the try block of the handler, lg being what
\* the event has logged so far: line 192 logs it and the handler returns.
Raise(exc, lg) ==
    /\ pc' = "done"
    /\ escaped' = ~HandlerCatches(exc)
    /\ log' = IF HandlerCatches(exc) THEN Append(lg, "error") ELSE lg

\* Variant: the reason is logged and the handler goes on to the mapping.
Return_FallThrough(reason, lg) ==
    /\ pc' = "get_mapping"
    /\ escaped' = FALSE
    /\ log' = Append(lg, reason)

\* The handler returns after logging reason.
Return(reason, lg) ==
    /\ pc' = "done"
    /\ escaped' = FALSE
    /\ log' = Append(lg, reason)

(***************************************************************************)
(* handle_reaction_added, one action per external call                     *)
(***************************************************************************)
\* get_mapping returns or raises: its locals are gone.
CallReturns ==
    /\ values' = <<>>
    /\ callAt' = 0
    /\ callPrev' = NeverFetched

\* Lines 136-143.  A payload whose "event" is not a mapping raises on the
\* first access.
ReceiveEvent(u, wellFormed) ==
    /\ pc \in {"idle", "done"}
    /\ user' = u
    /\ msg' = NoMessage
    /\ full_text' = <<>>
    /\ domain' = None
    /\ CallReturns
    /\ mapping' = <<>>
    /\ rowIdx' = -1
    /\ client_channel' = <<>>
    /\ calls' = <<>>
    /\ posts' = <<>>
    /\ IF wellFormed
       THEN /\ pc' = "history"
            /\ log' = <<"reaction_added">>
            /\ escaped' = FALSE
       ELSE Raise("AttributeError", <<>>)
    /\ UNCHANGED <<aloneVars, envVars, cacheVars>>

\* Lines 147-160 once fetch_message_or_reply returned m.
Analyse(m) ==
    LET ft == get_full_text(m)
        d == extract_domain_from_text(ft)
    IN  /\ msg' = m
        /\ full_text' = ft
        /\ IF Falsy(ft)
           THEN /\ domain' = None
                /\ Return("no_text", log)
           ELSE /\ domain' = d
                /\ IF Falsy(d)
                   THEN Return("no_domain", Append(log, "texto_detectado"))
                   ELSE /\ pc' = "get_mapping"
                        /\ log' = Append(log, "texto_detectado")
                        /\ escaped' = FALSE

\* Variant: the timestamp comparison is inverted.
HistoryHit_Inverted(msgs) == msgs # <<>> /\ msgs[1].ts # EventTs

\* Line 119: the history lookup found the reacted-to message.
HistoryHit(msgs) == msgs # <<>> /\ msgs[1].ts = EventTs

\* Lines 116-122: conversations_history answers resp.
History(resp) ==
    /\ pc = "history"
    /\ calls' = Append(calls, <<"history", Outcome(resp)>>)
    /\ IF resp.exc # ""
       THEN IF FetchCatches(resp.exc)
            THEN /\ pc' = "replies"
                 /\ UNCHANGED <<msg, full_text, domain, log, escaped>>
            ELSE /\ Raise(resp.exc, log)
                 /\ UNCHANGED <<msg, full_text, domain>>
       ELSE IF HistoryHit(resp.messages)
            THEN Analyse(resp.messages[1])
            ELSE /\ pc' = "replies"
                 /\ UNCHANGED <<msg, full_text, domain, log, escaped>>
    /\ UNCHANGED <<aloneVars, envVars, cacheVars, user, mapVars, posts>>

\* Line 127: the replies lookup returned a message.
RepliesHit(msgs) == msgs # <<>>

\* Lines 124-131, 147-149: conversations_replies answers resp.
Replies(resp) ==
    /\ pc = "replies"
    /\ calls' = Append(calls, <<"replies", Outcome(resp)>>)
    /\ IF resp.exc # ""
       THEN IF FetchCatches(resp.exc)
            THEN /\ Return("no_message", log)
                 /\ UNCHANGED <<msg, full_text, domain>>
            ELSE /\ Raise(resp.exc, log)
                 /\ UNCHANGED <<msg, full_text, domain>>
       ELSE IF RepliesHit(resp.messages)
            THEN Analyse(resp.messages[1])
            ELSE /\ Return("no_message", log)
                 /\ UNCHANGED <<msg, full_text, domain>>
    /\ UNCHANGED <<aloneVars, envVars, cacheVars, user, mapVars, posts>>

\* Lines 164-182 once get_mapping returned rows: i is the row found, reason
\* what the validations of that row give for the user.
Lookup(rows) ==
    \E i \in {FindRow(rows, domain)} :
    \E reason \in {IF i = 0 THEN "not_mapped" ELSE AuthorizationGate(rows[i], user)} :
        /\ mapping' = rows
        /\ rowIdx' = i
        /\ IF reason = "ok"
           THEN /\ client_channel' = ClientChannel(rows[i])
                /\ pc' = "post"
                /\ UNCHANGED <<log, escaped>>
           ELSE /\ client_channel' = <<>>
                /\ Return(reason, log)

\* Line 35: "map" in cache_map
GetMappingContains ==
    /\ pc = "get_mapping"
    /\ callAt' = now
    /\ callPrev' = fetched
    /\ pc' = IF CacheValid(cache, now) THEN "getitem" ELSE "sheet_fetch"
    /\ UNCHANGED <<aloneVars, envVars, cacheVars, user, msgVars, values, mapping, rowIdx,
                   client_channel, log, calls, posts, escaped>>

\* Line 36: cache_map["map"]; the entry may have expired since line 35, and
\* TTLCache then raises KeyError.
GetMappingGetitem ==
    /\ pc = "getitem"
    /\ IF CacheValid(cache, now)
       THEN Lookup(cache.rows)
       ELSE /\ Raise("KeyError", log)
            /\ UNCHANGED <<mapping, rowIdx, client_channel>>
    /\ CallReturns
    /\ fetchFailed' = FALSE
    /\ UNCHANGED <<aloneVars, envVars, cache, fetched, user, msgVars, calls, posts>>

\* Variant: a request that raises leaves an empty table in the cache.
SheetFetch_CachesFailure(ok) ==
    /\ pc = "sheet_fetch"
    /\ calls' = Append(calls, <<"sheet", IF ok THEN "ok" ELSE "HttpError">>)
    /\ IF ok
       THEN /\ values' = sheet
            /\ pc' = "store"
            /\ UNCHANGED <<cache, fetchFailed, callAt, callPrev, log, escaped>>
       ELSE /\ Raise("HttpError", log)
            /\ cache' = CacheStore(<<>>, now)
            /\ fetchFailed' = TRUE
            /\ CallReturns
    /\ UNCHANGED <<aloneVars, envVars, fetched, user, msgVars, mapping, rowIdx,
                   client_channel, posts>>

\* Lines 37-41: the request to the sheet succeeds or raises.
SheetFetch(ok) ==
    /\ pc = "sheet_fetch"
    /\ calls' = Append(calls, <<"sheet", IF ok THEN "ok" ELSE "HttpError">>)
    /\ IF ok
       THEN /\ values' = sheet
            /\ pc' = "store"
            /\ UNCHANGED <<fetchFailed, callAt, callPrev, log, escaped>>
       ELSE /\ Raise("HttpError", log)
            /\ fetchFailed' = TRUE
            /\ CallReturns
    /\ UNCHANGED <<aloneVars, envVars, cache, fetched, user, msgVars, mapping, rowIdx,
                   client_channel, posts>>

\* Lines 42-47: what get_mapping returns for the fetched values.
FetchResult(vals) == IF vals = <<>> THEN <<>> ELSE BuildRows(vals)

\* Lines 42-46: the cache after get_mapping handled the fetched values.
CacheAfterFetch(c, vals, t) ==
    IF vals = <<>> THEN c ELSE CacheStore(BuildRows(vals), t)

\* Lines 42-47, then the lookup of lines 164-182.
GetMappingStore ==
    /\ pc = "store"
    /\ cache' = CacheAfterFetch(cache, values, now)
    /\ fetched' = [at |-> now, rows |-> FetchResult(values)]
    /\ fetchFailed' = FALSE
    /\ \E rows \in {FetchResult(values)} : Lookup(rows)
    /\ CallReturns
    /\ UNCHANGED <<aloneVars, envVars, user, msgVars, calls, posts>>

\* Variant: the normalised text is sent instead of the text as extracted.
RelayCall_Lowered(channel, text) == [channel |-> channel, text |-> LowerStr(text)]

\* Line 186: the call made.
RelayCall(channel, text) == [channel |-> channel, text |-> text]

\* Variant: a failed post is tried once more.
PostCalls_Retry(channel, text, exc) ==
    IF exc = "" THEN <<[channel |-> channel, text |-> text]>>
    ELSE <<[channel |-> channel, text |-> text], [channel |-> channel, text |-> text]>>

\* Lines 185-189: the chat_postMessage calls made when the call ends with
\* exc ("" for success).
PostCalls(channel, text, exc) == <<RelayCall(channel, text)>>

\* Variant: a post that fails never gives the handler back its thread.
Post_Hangs(exc) ==
    /\ pc = "post"
    /\ calls' = Append(calls, <<"post", IF exc = "" THEN "ok" ELSE exc>>)
    /\ posts' = posts \o PostCalls(client_channel, full_text, exc)
    /\ IF exc = "" THEN Return("sent", log)
       ELSE /\ pc' = "hung"
            /\ UNCHANGED <<log, escaped>>
    /\ UNCHANGED <<aloneVars, envVars, cacheVars, user, msgVars, mapVars>>

\* Lines 185-192: chat_postMessage succeeds or raises exc.
Post(exc) ==
    /\ pc = "post"
    /\ calls' = Append(calls, <<"post", IF exc = "" THEN "ok" ELSE exc>>)
    /\ posts' = posts \o PostCalls(client_channel, full_text, exc)
    /\ IF exc = "" THEN Return("sent", log)
       ELSE IF PostCatches(exc) THEN Return("relay_failed", log)
       ELSE Raise(exc, log)
    /\ UNCHANGED <<aloneVars, envVars, cacheVars, user, msgVars, mapVars>>

(***************************************************************************)
(* Environment                                                             *)
(***************************************************************************)
Tick ==
    /\ now + TickStep <= MaxTime
    /\ now' = now + TickStep
    /\ UNCHANGED <<aloneVars, sheet, cacheVars, pc, user, msgVars, mapVars, log, calls, posts,
                   escaped>>

EditSheet(s) ==
    /\ s # sheet
    /\ sheet' = s
    /\ UNCHANGED <<aloneVars, now, cacheVars, pc, user, msgVars, mapVars, log, calls, posts,
                   escaped>>

Next ==
    \/ \E u \in Users, wf \in BOOLEAN : ReceiveEvent(u, wf)
    \/ \E r \in Responses : History(r)
    \/ \E r \in Responses : Replies(r)
    \/ GetMappingContains
    \/ GetMappingGetitem
    \/ \E ok \in BOOLEAN : SheetFetch(ok)
    \/ GetMappingStore
    \/ \E e \in {"", SlackApiError, "ConnectionError"} : Post(e)
    \/ Tick
    \/ \E s \in Sheets : EditSheet(s)

Spec == Init /\ [][Next]_vars

\* The steps of a handler invocation once the event is delivered.
HandlerStep ==
    \/ \E r \in Responses : History(r)
    \/ \E r \in Responses : Replies(r)
    \/ GetMappingContains
    \/ GetMappingGetitem
    \/ \E ok \in BOOLEAN : SheetFetch(ok)
    \/ GetMappingStore
    \/ \E e \in {"", SlackApiError, "ConnectionError"} : Post(e)

\* Events, handler steps and the clock; the sheet keeps the content it
\* starts with.
NextLive ==
    \/ \E u \in Users, wf \in BOOLEAN : ReceiveEvent(u, wf)
    \/ HandlerStep
    \/ Tick

\* Every external call returns or raises in the end, and the code between
\* two calls has no unbounded loop: a handler that can step does step.
SpecLive == Init /\ [][NextLive]_vars /\ WF_vars(HandlerStep)

(***************************************************************************)
(* extract_domain_from_text alone, on texts built from lines of known      *)
(* content                                                                 *)
(***************************************************************************)
MaxLines == 6

LineKinds == {"marker", "marker_mail", "bare", "bare2", "plain"}

\* The line of each kind.
LineOf(k) ==
    CASE k = "marker" -> MARKER \o <<":">>
      [] k = "marker_mail" -> MARKER \o <<":", " ", "<", "m", "a", "i", "l", "t", "o", ":", "u", "@", "A", ".", "i", "o", "|", "u", "@", "a", ".", "i", "o", ">">>
      [] k = "bare" -> <<"w", "r", "i", "t", "e", " ", "b", "@", "B", ".", "i", "o", ",", " ", "t", "o", "d", "a", "y">>
      [] k = "bare2" -> <<"c", "@", "C", ".", "o", "r", "g">>
      [] k = "plain" -> <<"h", "i">>

TextOf(kinds) == JoinNl([i \in 1..Len(kinds) |-> LineOf(kinds[i])])

InitExtract ==
    /\ HandlerInit
    /\ ConcInit
    /\ sheet = <<>>
    /\ xKinds \in UNION {[1..n -> LineKinds] : n \in 0..MaxLines}
    /\ xOut = Pending

Extract ==
    /\ xOut = Pending
    /\ xOut' = ExtractTrace(TextOf(xKinds))
    /\ UNCHANGED <<envVars, cacheVars, pc, user, msgVars, mapVars, log, calls, posts,
                   escaped, xKinds, concVars>>

NextExtract == Extract

SpecExtract == InitExtract /\ [][NextExtract]_vars

(***************************************************************************)
(* get_mapping alone, called by the threads of the listener pool at the    *)
(* same time.  A thread can be preempted between any two of lines 35, 36,  *)
(* 37-41 and 42-47; the request to the sheet takes time.  Every table      *)
(* built at line 45 is a list object of its own, kept in heap with the     *)
(* sheet version and the time of the request that produced it.             *)
(***************************************************************************)
MaxTables == 2
MaxVer == 1

handlerVars == <<pc, user, msgVars, mapVars, log, calls, posts, escaped>>

Max(a, b) == IF a >= b THEN a ELSE b

\* Variant: the refresh overwrites the list the cache holds instead of
\* leaving it alone.
NewList_InPlace(h, ref, t) ==
    Append(IF ref > 0 THEN [h EXCEPT ![ref] = t] ELSE h, t)

\* Line 45: the list comprehension builds a new list; the list the cache
\* holds (ref) is left as it is.
NewList(h, ref, t) == Append(h, t)

\* Line 35: "map" in cache_map, as the call begins.
ConcContains(p) ==
    /\ threads[p].pc \in {"idle", "returned", "raised"}
    /\ threads' = [threads EXCEPT ![p] =
                      [NoCall EXCEPT !.pc = IF CacheValid(cache, now)
                                            THEN "getitem" ELSE "sheet_fetch",
                                     !.seen = served]]
    /\ UNCHANGED <<extractVars, envVars, cacheVars, handlerVars, sheetVer, heap,
                   cacheRef, served>>

\* Line 36: cache_map["map"] returns the list the cache holds, or raises
\* KeyError when the entry expired since line 35.
ConcGetitem(p) ==
    /\ threads[p].pc = "getitem"
    /\ IF CacheValid(cache, now)
       THEN /\ threads' = [threads EXCEPT ![p] =
                              [NoCall EXCEPT !.pc = "returned", !.ret = cacheRef]]
            /\ served' = Max(served, heap[cacheRef].ver)
       ELSE /\ threads' = [threads EXCEPT ![p] = [NoCall EXCEPT !.pc = "raised"]]
            /\ UNCHANGED served
    /\ UNCHANGED <<extractVars, envVars, cacheVars, handlerVars, sheetVer, heap,
                   cacheRef>>

\* Lines 37-41: the request to the sheet answers with the values the sheet
\* holds now, or raises.
ConcSheetFetch(p, ok) ==
    /\ threads[p].pc = "sheet_fetch"
    /\ Len(heap) + Cardinality({q \in Threads : threads[q].pc = "store"}) < MaxTables
    /\ threads' = [threads EXCEPT ![p] =
                      IF ok
                      THEN [@ EXCEPT !.pc = "store", !.values = sheet,
                                     !.ver = sheetVer, !.at = now]
                      ELSE [NoCall EXCEPT !.pc = "raised"]]
    /\ UNCHANGED <<extractVars, envVars, cacheVars, handlerVars, sheetVer, heap,
                   cacheRef, served>>

\* Lines 42-47: no values, and a new empty list is returned to this caller
\* alone (ret = 0); otherwise the table is built, stored and returned.
ConcStore(p) ==
    LET t == threads[p]
        table == [rows |-> FetchResult(t.values), ver |-> t.ver, at |-> t.at]
        stored == t.values # <<>>
    IN  /\ t.pc = "store"
        /\ cache' = CacheAfterFetch(cache, t.values, now)
        /\ heap' = IF stored THEN NewList(heap, cacheRef, table) ELSE heap
        /\ cacheRef' = IF stored THEN Len(heap') ELSE cacheRef
        /\ threads' = [threads EXCEPT ![p] =
                          [NoCall EXCEPT !.pc = "returned",
                                         !.ret = IF stored THEN Len(heap') ELSE 0]]
        /\ served' = Max(served, t.ver)
        /\ UNCHANGED <<extractVars, envVars, fetched, fetchFailed, handlerVars, sheetVer>>

\* Somebody edits the sheet: a new version of the source.
ConcEditSheet(s) ==
    /\ s # sheet
    /\ sheetVer < MaxVer
    /\ sheet' = s
    /\ sheetVer' = sheetVer + 1
    /\ UNCHANGED <<extractVars, now, cacheVars, handlerVars, heap, cacheRef, threads,
                   served>>

NextConc ==
    \/ \E p \in Threads : ConcContains(p)
    \/ \E p \in Threads : ConcGetitem(p)
    \/ \E p \in Threads, ok \in BOOLEAN : ConcSheetFetch(p, ok)
    \/ \E p \in Threads : ConcStore(p)
    \/ \E s \in Sheets : ConcEditSheet(s)
    \/ Tick

SpecConc == Init /\ [][NextConc]_vars

(***************************************************************************)
(* Properties                                                              *)
(***************************************************************************)
\* The row selected for the current event's domain (rowIdx > 0).
Row == mapping[rowIdx]

Last(seq) == seq[Len(seq)]

CallNames == [k \in 1..Len(calls) |-> calls[k][1]]

\* C1: a relay call is made only for a selected row whose Activo is "true"
\* after trim and lowercase, whose trimmed ManagerSlackID is exactly the
\* event's user and whose trimmed ClientChannelID is not empty; the relay
\* goes to exactly that trimmed ClientChannelID.
C1_RelayOnlyWhenAuthorized ==
    \A k \in 1..Len(posts) :
        /\ rowIdx > 0
        /\ LowerStr(StripStr(Get(Row, "Activo"))) = TRUE_LITERAL
        /\ user = StripStr(Get(Row, "ManagerSlackID"))
        /\ StripStr(Get(Row, "ClientChannelID")) # <<>>
        /\ posts[k].channel = StripStr(Get(Row, "ClientChannelID"))

\* C1 witness: a relay through a row whose cells carry padding and capitals.
C1_Witness ==
    /\ pc = "done"
    /\ posts # <<>>
    /\ rowIdx > 0
    /\ Get(Row, "Activo") # TRUE_LITERAL
    /\ Get(Row, "ManagerSlackID") # user
    /\ posts[1].channel = S_C999

\* C2: an event that reaches a mapped row passing the active, identity and
\* destination checks makes exactly one relay call, to the row's destination,
\* with the full extracted text; triggered by anyone but the row's manager
\* it makes none.
C2_ExactlyOneRelay ==
    (pc = "done" /\ rowIdx > 0) =>
        /\ (IsActive(Row) /\ IsManager(Row, user) /\ ClientChannel(Row) # <<>>)
               => posts = <<[channel |-> ClientChannel(Row),
                             text |-> get_full_text(msg)]>>
        /\ ~IsManager(Row, user) => posts = <<>>

\* C2 witness: the marker message relayed whole, capitals included.
C2_Witness ==
    /\ pc = "done"
    /\ Len(posts) = 1
    /\ posts[1].text = TxtMarkerAcme
    /\ domain = S_acme
    /\ Last(calls) = <<"post", "ok">>

\* C3: whatever external call fails and however the payload is malformed,
\* no exception leaves the processing of an event.
C3_NoExceptionEscapes == escaped = FALSE

\* C3 witness: an event ended by an error other than the platform's own,
\* raised by the relay post.
C3_Witness ==
    /\ pc = "done"
    /\ calls # <<>>
    /\ Last(calls) = <<"post", "ConnectionError">>
    /\ Last(log) = "error"

\* The get_mapping call of the current event returns a table in this step.
GetMappingReturns == pc \in {"getitem", "store"} /\ rowIdx' >= 0

\* C4: a call made less than TTL after a completed fetch returns that
\* fetch's result without fetching, also when the fetch brought no values;
\* a call made after that fetches again and returns what it fetched.
C4_CacheWindow ==
    [][(GetMappingReturns /\ callPrev.at >= 0) =>
         /\ callAt < callPrev.at + TTL =>
                (mapping' = callPrev.rows /\ pc = "getitem")
         /\ callAt >= callPrev.at + TTL =>
                (mapping' = FetchResult(values) /\ pc = "store")]_vars

SkipReasons == {"not_mapped", "inactive", "unauthorized", "no_channel"}

\* C5: the skip reason logged is that of the first failing check in the order
\* row lookup, active, identity, destination; a skipped event logs exactly
\* one reason, as the last thing it does, and makes no relay call.
C5_FirstFailingCheck ==
    rowIdx >= 0 =>
        LET reasons == SelectSeq(log, LAMBDA e : e \in SkipReasons)
            found == rowIdx > 0
            active == found /\ IsActive(Row)
            manager == active /\ IsManager(Row, user)
            destination == manager /\ ClientChannel(Row) # <<>>
        IN  /\ Len(reasons) <= 1
            /\ ~found <=> reasons = <<"not_mapped">>
            /\ (found /\ ~active) <=> reasons = <<"inactive">>
            /\ (active /\ ~manager) <=> reasons = <<"unauthorized">>
            /\ (manager /\ ~destination) <=> reasons = <<"no_channel">>
            /\ reasons # <<>> =>
                   /\ pc = "done"
                   /\ Last(log) = reasons[1]
                   /\ posts = <<>>
                   /\ Last(CallNames) # "post"

\* C5 witness: an inactive row and a user who is not its manager either.
C5_Witness ==
    /\ pc = "done"
    /\ rowIdx > 0
    /\ ~IsActive(Row)
    /\ ~IsManager(Row, user)
    /\ Last(log) = "inactive"

\* C6: an event makes at most one chat_postMessage call; when that call
\* fails the event ends there, without a second attempt and without the
\* failure leaving the handler.
C6_FailedRelayIsTerminal ==
    /\ Len(posts) <= 1
    /\ Cardinality({k \in 1..Len(calls) : calls[k][1] = "post"}) = Len(posts)
    /\ \A k \in 1..Len(calls) :
           (calls[k][1] = "post" /\ calls[k][2] # "ok") =>
               (k = Len(calls) /\ pc = "done" /\ ~escaped)

\* C6 witness: a relay post that failed with the platform's error.
C6_Witness ==
    /\ pc = "done"
    /\ calls # <<>>
    /\ Last(calls) = <<"post", SlackApiError>>
    /\ Last(log) = "relay_failed"
    /\ Len(posts) = 1

FetchErrors == {SlackApiError, "ConnectionError"}

\* C7: the history lookup comes first; the replies lookup is attempted only
\* after a history lookup that raised or returned no message with the
\* event's timestamp; when both raise or return nothing, no message is
\* returned and the event ends without text, mapping fetch or relay.
C7_HistoryThenReplies ==
    /\ calls # <<>> => calls[1][1] = "history"
    /\ \A k \in 1..Len(calls) :
           calls[k][1] = "replies" =>
               (k = 2 /\ calls[1][1] = "history" /\ calls[1][2] # "target")
    /\ (/\ Len(calls) >= 2
        /\ calls[1][2] \in FetchErrors \cup {"empty"}
        /\ calls[2][1] = "replies"
        /\ calls[2][2] \in FetchErrors \cup {"empty"}) =>
           /\ pc = "done"
           /\ msg = NoMessage
           /\ full_text = <<>>
           /\ domain = None
           /\ rowIdx = -1
           /\ Len(calls) = 2
           /\ posts = <<>>
           /\ Last(log) \in {"no_message", "error"}

\* C7 witness: history raised, replies returned nothing, event abandoned.
C7_Witness ==
    /\ pc = "done"
    /\ calls = <<<<"history", SlackApiError>>, <<"replies", "empty">>>>
    /\ Last(log) = "no_message"

\* Two characters are the same letter, whatever their case.
SameLetter(c, d) ==
    c = d \/ \E i \in 1..Len(UpperChars) : {c, d} = {UpperChars[i], LowerChars[i]}

EqIgnoreCase(a, b) ==
    Len(a) = Len(b) /\ \A i \in 1..Len(a) : SameLetter(a[i], b[i])

\* C8: the row selected is the first row of the table whose domain equals
\* the looked-up domain ignoring case, no row when there is none, and a
\* message that differs from the event's only in letter case selects the
\* same row.
C8_CaseInsensitiveFirstMatch ==
    rowIdx >= 0 =>
        LET hits == {i \in 1..Len(mapping) :
                        EqIgnoreCase(Get(mapping[i], "Dominio"), domain)}
        IN  /\ hits = {} => rowIdx = 0
            /\ hits # {} => (rowIdx \in hits /\ \A i \in hits : rowIdx <= i)
            /\ \A m \in Messages :
                   EqIgnoreCase(get_full_text(m), full_text) =>
                       FindRow(mapping, extract_domain_from_text(get_full_text(m)))
                           = rowIdx

\* C8 witness: a domain written in capitals in the message selects a row
\* whose domain is written in capitals, and another message differs from the
\* event's in letter case only.
C8_Witness ==
    /\ rowIdx = 1
    /\ msg.text = TxtUpperAcme
    /\ Get(Row, "Dominio") = S_ACME
    /\ \E m \in Messages : m.text # msg.text /\ EqIgnoreCase(m.text, msg.text)

\* What the lines of each kind hold, as they were written.
HasMarker(k) == k \in {"marker", "marker_mail"}
HasMail(k) == k \in {"marker_mail", "bare", "bare2"}

\* The domain of the email of a line of kind k, lowercase and without the
\* punctuation that follows it in the line.
MailDomain(k) ==
    CASE k = "marker_mail" -> <<"a", ".", "i", "o">>
      [] k = "bare" -> <<"b", ".", "i", "o">>
      [] k = "bare2" -> <<"c", ".", "o", "r", "g">>

\* C9: a domain found by the whole-text fallback is normalised as a window
\* match is: it equals what the window path returns for that occurrence.
C9_FallbackNormalizedAsWindow ==
    xOut.path = "fallback" =>
        /\ xOut.domain = WindowNormalize(ReSearch(TextOf(xKinds)))
        /\ \E i \in 1..Len(xKinds) :
               /\ HasMail(xKinds[i])
               /\ \A j \in 1..(i - 1) : ~HasMail(xKinds[j])
               /\ xOut.domain = MailDomain(xKinds[i])

\* C10: when a line holds the marker, the first marker line and the three
\* lines after it (fewer at the end of the text) are searched in order and
\* the first email among them is returned, whatever email comes earlier in
\* the text; an email further down is never returned by the window search.
C10_WindowOfFourLines ==
    (xOut # Pending /\ \E i \in 1..Len(xKinds) : HasMarker(xKinds[i])) =>
        LET i == CHOOSE x \in 1..Len(xKinds) :
                     HasMarker(xKinds[x]) /\ \A y \in 1..(x - 1) : ~HasMarker(xKinds[y])
            window == {j \in 1..Len(xKinds) : i <= j /\ j <= i + 3}
            mails == {j \in window : HasMail(xKinds[j])}
        IN  /\ mails = {} => xOut.path # "window"
            /\ mails # {} =>
                   /\ xOut.path = "window"
                   /\ xOut.line \in mails
                   /\ \A j \in mails : xOut.line <= j
                   /\ xOut.domain = MailDomain(xKinds[xOut.line])

\* C10 witness: an email before the marker line, none on it nor on the two
\* lines after it, and the email of the third line after it is returned.
C10_Witness ==
    /\ Len(xKinds) = 5
    /\ xKinds[1] = "bare"
    /\ xKinds[2] = "marker"
    /\ ~HasMail(xKinds[3]) /\ ~HasMail(xKinds[4])
    /\ xKinds[5] = "bare2"
    /\ xOut.path = "window"
    /\ xOut.line = 5
    /\ xOut.domain = MailDomain("bare2")

\* The text the attachments carry: their non-empty texts, one per line.
AttachmentLines(atts) ==
    JoinNl(SelectSeq([k \in 1..Len(atts) |-> OrEmpty(atts[k].text)],
                     LAMBDA t : t # <<>>))

\* The parts of a message that carry text, in the order plain text, blocks,
\* attachments.
TextParts(m) ==
    SelectSeq(<<OrEmpty(m.text), collect_text_from_blocks(m.blocks),
                AttachmentLines(m.attachments)>>,
              LAMBDA t : t # <<>>)

\* C11: the full text of the message is its non-empty parts, in the order
\* plain text, blocks, attachments, joined by single newlines, so that it
\* neither starts with a newline nor holds an empty line where two parts
\* meet; it is empty exactly when no part carries text, and the event then
\* ends without mapping fetch or relay.
C11_FullTextJoinsParts ==
    msg # NoMessage =>
        /\ full_text = JoinNl(TextParts(msg))
        /\ full_text = <<>> <=> TextParts(msg) = <<>>
        /\ full_text = <<>> =>
               /\ pc = "done"
               /\ Last(log) = "no_text"
               /\ rowIdx = -1
               /\ posts = <<>>
               /\ \A k \in 1..Len(calls) : calls[k][1] \notin {"sheet", "post"}

\* The cache holds one whole table: the rows of one fetch of the sheet, and
\* the list that the last store built.
CacheHoldsOneTable ==
    cache.has =>
        /\ cacheRef = Len(heap)
        /\ cache.rows = heap[cacheRef].rows
        /\ \E s \in Sheets : s # <<>> /\ cache.rows = BuildRows(s)

\* C12: when several threads call get_mapping at the same time on an empty
\* or expired cache, each may fetch, and after every step the cache holds
\* one whole table as one fetch produced it, the one stored last, never rows
\* of two fetches nor a table half built; a table already returned to a
\* caller is not changed by a later refresh.
C12_LastWriterWins ==
    [][/\ CacheHoldsOneTable'
       /\ \A p \in Threads :
              (threads[p].ret > 0 /\ threads'[p].ret = threads[p].ret) =>
                  heap'[threads[p].ret] = heap[threads[p].ret]]_vars

\* C12 witness: two calls that both missed the cache at time 0 and both
\* fetched and stored, of different versions of the sheet; one caller holds
\* the table stored first, the cache the one stored last.
C12_Witness ==
    /\ now = 0
    /\ Len(heap) = 2
    /\ heap[1].rows # heap[2].rows
    /\ \E p, q \in Threads :
           /\ threads[p].pc = "returned" /\ threads[p].ret = 1
           /\ threads[q].pc = "returned" /\ threads[q].ret = 2
    /\ cacheRef = 2
    /\ cache.rows = heap[2].rows

\* The place of each external call in the pipeline.
StepOf(call) ==
    CASE call \in {"history", "replies"} -> 1
      [] call = "sheet" -> 2
      [] call = "post" -> 3

AbandonReasons == {"no_message", "no_text", "no_domain"} \cup SkipReasons

\* C13: within one event the external calls come in the order message
\* fetch, mapping fetch, relay post, the last two at most once; the mapping
\* is neither read nor fetched for an event without message, text or domain;
\* the relay post is made only after the lookup in the mapping selected a
\* row; once a step has abandoned the event nothing more is done for it.
C13_LinearPipeline ==
    /\ \A i, j \in 1..Len(calls) :
           i < j => /\ StepOf(calls[i][1]) <= StepOf(calls[j][1])
                    /\ StepOf(calls[j][1]) > 1 => calls[i][1] # calls[j][1]
    /\ (pc \in {"get_mapping", "getitem", "sheet_fetch", "store"}
        \/ \E k \in 1..Len(calls) : calls[k][1] = "sheet") =>
           /\ msg # NoMessage
           /\ ~Falsy(full_text)
           /\ ~Falsy(domain)
           /\ calls[1][1] = "history"
    /\ (pc = "post" \/ \E k \in 1..Len(calls) : calls[k][1] = "post") =>
           /\ rowIdx > 0
           /\ ~Falsy(domain)
           /\ \A k \in 1..Len(log) : log[k] \notin AbandonReasons
    /\ \A k \in 1..Len(log) :
           log[k] \in AbandonReasons \cup {"error", "relay_failed", "sent"} =>
               (k = Len(log) /\ pc = "done")

\* C13 witness: an event that went through every step: history missed,
\* replies found the message, the sheet was fetched, the relay was posted.
C13_Witness ==
    /\ pc = "done"
    /\ CallNames = <<"history", "replies", "sheet", "post">>
    /\ Last(log) = "sent"
    /\ rowIdx > 0

\* C14: when the request to the sheet raises inside get_mapping, the
\* exception reaches the handler, which logs it and ends the event without
\* a lookup and without a relay call; the cache is left as it was before
\* the call; and the next get_mapping call requests the sheet again.
C14_FailedFetchLeavesCache ==
    [][/\ (pc = "sheet_fetch" /\ pc' = "done") =>
              /\ cache' = cache
              /\ fetched' = fetched
              /\ Last(calls') = <<"sheet", "HttpError">>
              /\ Last(log') = "error"
              /\ ~escaped'
              /\ rowIdx' = -1
              /\ posts' = <<>>
       /\ (fetchFailed /\ pc = "get_mapping" /\ pc' # pc) => pc' = "sheet_fetch"
       /\ (\E k \in 1..Len(calls') : calls'[k] = <<"sheet", "HttpError">>) =>
              (pc' = "done" /\ posts' = <<>>)]_vars

\* C14 witness: the cache held an expired table when a request raised; the
\* table is still there and the next call is about to request the sheet.
C14_Witness ==
    /\ fetchFailed
    /\ pc = "sheet_fetch"
    /\ cache.has
    /\ cache.rows # <<>>
    /\ calls # <<>>
    /\ Last(calls)[1] # "sheet"

IsPrefix(a, b) == Len(a) <= Len(b) /\ SubSeq(b, 1, Len(a)) = a

\* C15: when the text has a marker line and none of the four lines from
\* the first marker line on holds an email, later marker lines are not
\* examined: the whole text is searched and the domain returned is that of
\* the first email of the text, before the marker or after the window as it
\* may be; no domain is returned when the text holds no email.
C15_NoSecondMarker ==
    (xOut # Pending /\ \E i \in 1..Len(xKinds) : HasMarker(xKinds[i])) =>
        LET i == CHOOSE x \in 1..Len(xKinds) :
                     HasMarker(xKinds[x]) /\ \A y \in 1..(x - 1) : ~HasMarker(xKinds[y])
            window == {j \in 1..Len(xKinds) : i <= j /\ j <= i + 3}
            mails == {j \in 1..Len(xKinds) : HasMail(xKinds[j])}
        IN  (mails \cap window = {}) =>
                /\ mails = {} => (xOut.path = "none" /\ xOut.domain = None)
                /\ mails # {} =>
                       /\ xOut.path = "fallback"
                       /\ \E f \in mails :
                              /\ \A j \in mails : f <= j
                              /\ IsPrefix(MailDomain(xKinds[f]), xOut.domain)

\* C15 witness: an email before the first marker line, no email in its
\* window, and after the window a second marker line with an email of its
\* own; the domain returned is that of the email before the marker.
C15_Witness ==
    /\ xKinds = <<"bare", "marker", "plain", "plain", "plain", "marker_mail">>
    /\ xOut.path = "fallback"
    /\ IsPrefix(MailDomain("bare"), xOut.domain)

GateKeys == {"Activo", "ManagerSlackID", "ClientChannelID"}

\* Row r of the table is the data row cells paired with the header by
\* position: a field for each cell, none beyond the cells of the row.
ZippedByPosition(r, cells) ==
    \A k \in 1..Len(HDR) :
        IF k <= Len(cells)
        THEN HDR[k] \in DOMAIN r /\ r[HDR[k]] = cells[k]
        ELSE HDR[k] \notin DOMAIN r

\* C16: every row of the table is the data row paired with the header by
\* position, so a data row shorter than the header lacks the later fields,
\* and each of them reads as the empty string where the handler uses it; a
\* selected row without active, manager or destination value (missing or
\* blank) is not actionable for any user and no relay is made for it.
C16_ShortRowNeverRelays ==
    /\ mapping # <<>> =>
           \E s \in Sheets :
               /\ Len(s) = Len(mapping) + 1
               /\ \A i \in 1..Len(mapping) : ZippedByPosition(mapping[i], s[i + 1])
    /\ rowIdx > 0 =>
           /\ \A key \in GateKeys : key \notin DOMAIN Row => Get(Row, key) = <<>>
           /\ (\E key \in GateKeys : StripStr(Get(Row, key)) = <<>>) =>
                  /\ \A u \in Users : AuthorizationGate(Row, u) # "ok"
                  /\ pc = "done"
                  /\ Last(log) \in {"inactive", "unauthorized", "no_channel"}
                  /\ posts = <<>>
                  /\ \A k \in 1..Len(calls) : calls[k][1] # "post"

\* C16 witness: the row selected for the event has three cells for six
\* header names, its destination among them; the event ended as inactive.
C16_Witness ==
    /\ pc = "done"
    /\ rowIdx > 0
    /\ DOMAIN Row = {"Dominio", "Cliente", "ClientChannelID"}
    /\ Get(Row, "ClientChannelID") = S_C777
    /\ user = U999
    /\ Last(log) = "inactive"

Outcomes == {"sent", "relay_failed", "error"} \cup AbandonReasons

\* C17: under the assumption that every external call returns or raises,
\* every delivered event reaches a terminal outcome: relayed, relay failed,
\* abandoned with a reason or ended by a logged error; and whatever the
\* outcome of an event, the next event can be delivered and reaches its own.
C17_EveryEventTerminates ==
    /\ (pc \notin {"idle", "done"}) ~> (pc = "done" /\ Last(log) \in Outcomes)
    /\ [](pc = "done" => ENABLED (\E u \in Users : ReceiveEvent(u, TRUE)))

\* C17 witness: an event abandoned for want of a message after an earlier
\* event was ended by the sheet request raising.
C17_Witness ==
    /\ fetchFailed
    /\ pc = "done"
    /\ Last(log) = "no_message"

\* C18: the message fetch_message_or_reply returns, by the history lookup or
\* by the replies lookup, carries the timestamp of the reaction event, so
\* the text analysed and the text relayed are those of the message reacted
\* to.
C18_MessageIsTarget ==
    msg # NoMessage =>
        /\ msg.ts = EventTs
        /\ \A k \in 1..Len(posts) : posts[k].text = get_full_text(msg)

\* Thread p's get_mapping call returns in this step, from the cache (line
\* 36) or with what it fetched (lines 43 and 47).
ReturnsFrom(p, at) == threads[p].pc = at /\ threads'[p].pc = "returned"

\* C19: whatever the interleaving of the threads, a call that begins after
\* some call returned the table of sheet version v returns a table of
\* version v or newer, and a table is returned from the cache only less than
\* TTL after the request that fetched it.
C19_SnapshotsNeverOlder ==
    [][\A p \in Threads :
           /\ ReturnsFrom(p, "getitem") =>
                  /\ heap[cacheRef].ver >= threads[p].seen
                  /\ now < heap[cacheRef].at + TTL
           /\ ReturnsFrom(p, "store") => threads[p].ver >= threads[p].seen]_vars

====
